---- MODULE Spec2Model ----
(***************************************************************************)
(* Model of the authenticated ledger state of                              *)
(* src/data_structures/ledger.rs: the struct State (a Merkle tree of       *)
(* account records plus the two directories id_to_account_info and         *)
(* pub_key_to_id) and its operations State::new, State::new_account and    *)
(* State::update_balance.                                                  *)
(*                                                                         *)
(* The hash functions are collision resistant; they are modelled as        *)
(* injective constructors, so a digest is the term that was hashed.        *)
(***************************************************************************)
EXTENDS Integers, Sequences, FiniteSets, TLC

(* ---------------------------- bounds ----------------------------------- *)

\* Public keys are the curve points 1..NumKeys.
NumKeys == 3
\* Account ids passed to the operations range over 0..MaxId (AccountId is a u8).
MaxId == 2
\* Number of bytes in the fixed-width serialisation of a public key.
KeyWidth == 2
\* Number of bytes of the little-endian serialisation of the u64 balance.
AmountWidth == 8

Keys == 1..NumKeys
Ids == 0..MaxId
Amounts == {0, 50, 100}
\* Capacity hints passed to State::new.  Spec explores the ledgers built with
\* these hints under every call; the ledger of hint ScenarioHint is explored
\* by SpecScenario under the calls of the concrete scenario.
Hints == {1, 2}
ScenarioHint == 4

VARIABLES
    account_merkle_tree,  \* State.account_merkle_tree: [leaf_nodes, root]
    id_to_account_info,   \* State.id_to_account_info : AccountId -> AccountInformation
    pub_key_to_id,        \* State.pub_key_to_id      : AccountPublicKey -> AccountId
    num_accounts,         \* the argument State::new was called with
    ret,                  \* outcome of the last call: "new", "unit", "Some", "None", "panic"
    key_reused            \* history: some public key was passed to new_account with two ids

vars == <<account_merkle_tree, id_to_account_info, pub_key_to_id, num_accounts, ret, key_reused>>

(* ---------------------------- helpers ---------------------------------- *)

Pow2(n) == 2 ^ n

\* HashMap::insert: bind k to v, replacing an older binding of k.
Insert(m, k, v) == [x \in (DOMAIN m) \cup {k} |-> IF x = k THEN v ELSE m[x]]

\* HashMap::with_capacity: the empty map.
EmptyMap == [x \in {} |-> 0]

\* ark_std::log2: 0 for 0, otherwise the least k with 2^k >= x.
log2(x) == IF x = 0 THEN 0 ELSE CHOOSE k \in 0..x : Pow2(k) >= x /\ \A j \in 0..(k-1) : Pow2(j) < x

RECURSIVE le_bytes(_, _)
\* The w low-order bytes of v, least significant first.
le_bytes(v, w) == IF w = 0 THEN << >> ELSE <<v % 256>> \o le_bytes(v \div 256, w - 1)

\* Serialisation of a public key: KeyWidth bytes.
key_bytes(pk) == le_bytes(pk, KeyWidth)

\* Serialisation of a u64: AmountWidth bytes, little endian.
amount_bytes(a) == le_bytes(a, AmountWidth)

\* Faulty to_bytes: the balance is left out of the encoding.
to_bytes_key_only(info) == key_bytes(info.public_key) \o amount_bytes(0)

\* AccountInformation::to_bytes: the public key followed by the balance.
to_bytes(info) == key_bytes(info.public_key) \o amount_bytes(info.balance)

(* ---------------------------- Merkle tree ------------------------------ *)

\* The leaf hash and the two-to-one hash, as injective constructors.
LeafHash(bytes) == <<"leaf", bytes>>
TwoToOneHash(l, r) == <<"node", l, r>>

\* The zero-filled leaf of a blank tree.
BlankLeaf == [i \in 1..(KeyWidth + AmountWidth) |-> 0]

RECURSIVE Digest(_, _, _)
\* Digest of the subtree over the n leaves lo .. lo+n-1 (n a power of two).
Digest(leaf_nodes, lo, n) ==
    IF n = 1 THEN LeafHash(leaf_nodes[lo])
    ELSE TwoToOneHash(Digest(leaf_nodes, lo, n \div 2),
                      Digest(leaf_nodes, lo + (n \div 2), n \div 2))

NumLeaves(tree) == Cardinality(DOMAIN tree.leaf_nodes)

Root(leaf_nodes) == Digest(leaf_nodes, 0, Cardinality(DOMAIN leaf_nodes))

\* MerkleTree::blank: every leaf zero-filled.
blank(n) ==
    LET leaf_nodes == [i \in 0..(n - 1) |-> BlankLeaf]
    IN  [leaf_nodes |-> leaf_nodes, root |-> Root(leaf_nodes)]

\* The leaf counts a tree built by blank(.., height) can have.  The merkle_tree
\* crate fixes it; a height counts either the edges from the root to a leaf
\* (2^height leaves) or the levels of the tree (2^(height-1) leaves).
LeafCounts(height) == {Pow2(height)} \cup (IF height >= 1 THEN {Pow2(height - 1)} ELSE {})

\* MerkleTree::update: "ok" and the tree with leaf index replaced and the
\* path to the root recomputed, or "err" when index is out of range.
tree_update(tree, index, bytes) ==
    IF index >= NumLeaves(tree)
    THEN [ok |-> FALSE, tree |-> tree]
    ELSE LET leaf_nodes == [tree.leaf_nodes EXCEPT ![index] = bytes]
         IN  [ok |-> TRUE, tree |-> [leaf_nodes |-> leaf_nodes, root |-> Root(leaf_nodes)]]

(* ---------------------------- State ------------------------------------ *)

\* State::new with a tree of n leaves.
new(n) ==
    [account_merkle_tree |-> blank(n),
     id_to_account_info  |-> EmptyMap,
     pub_key_to_id       |-> EmptyMap]

\* Faulty new_account: the reverse directory is not written.
new_account_no_directory(self, id, public_key) ==
    LET account_info == [public_key |-> public_key, balance |-> 0]
        upd == tree_update(self.account_merkle_tree, id, to_bytes(account_info))
    IN  IF ~upd.ok
        THEN [self |-> self, ret |-> "panic"]
        ELSE [self |-> [self EXCEPT !.account_merkle_tree = upd.tree,
                                    !.id_to_account_info = Insert(@, id, account_info)],
              ret |-> "unit"]

\* Faulty new_account: the leaf is written but the record is not stored.
new_account_no_record(self, id, public_key) ==
    LET account_info == [public_key |-> public_key, balance |-> 0]
        s1 == [self EXCEPT !.pub_key_to_id = Insert(@, public_key, id)]
        upd == tree_update(s1.account_merkle_tree, id, to_bytes(account_info))
    IN  IF ~upd.ok
        THEN [self |-> s1, ret |-> "panic"]
        ELSE [self |-> [s1 EXCEPT !.account_merkle_tree = upd.tree], ret |-> "unit"]

\* Faulty new_account: an id that already has a record keeps it (the record is
\* stored with entry().or_insert instead of insert).
new_account_keeps_existing(self, id, public_key) ==
    LET account_info == [public_key |-> public_key, balance |-> 0]
        s1 == [self EXCEPT !.pub_key_to_id = Insert(@, public_key, id)]
        upd == tree_update(s1.account_merkle_tree, id, to_bytes(account_info))
    IN  IF ~upd.ok
        THEN [self |-> s1, ret |-> "panic"]
        ELSE [self |-> [s1 EXCEPT !.account_merkle_tree = upd.tree,
                                  !.id_to_account_info =
                                      IF id \in DOMAIN @ THEN @ ELSE Insert(@, id, account_info)],
              ret |-> "unit"]

\* Faulty new_account: the record is stored before the tree is updated, so a
\* panic of the tree update leaves the record behind.
new_account_record_first(self, id, public_key) ==
    LET account_info == [public_key |-> public_key, balance |-> 0]
        s1 == [self EXCEPT !.pub_key_to_id = Insert(@, public_key, id),
                           !.id_to_account_info = Insert(@, id, account_info)]
        upd == tree_update(s1.account_merkle_tree, id, to_bytes(account_info))
    IN  IF ~upd.ok
        THEN [self |-> s1, ret |-> "panic"]
        ELSE [self |-> [s1 EXCEPT !.account_merkle_tree = upd.tree], ret |-> "unit"]

\* Faulty new_account: the reverse directory binds the public key to the
\* number of accounts created so far instead of to id.
new_account_sequential_id(self, id, public_key) ==
    LET account_info == [public_key |-> public_key, balance |-> 0]
        s1 == [self EXCEPT !.pub_key_to_id =
                  Insert(@, public_key, Cardinality(DOMAIN self.id_to_account_info))]
        upd == tree_update(s1.account_merkle_tree, id, to_bytes(account_info))
    IN  IF ~upd.ok
        THEN [self |-> s1, ret |-> "panic"]
        ELSE [self |-> [s1 EXCEPT !.account_merkle_tree = upd.tree,
                                  !.id_to_account_info = Insert(@, id, account_info)],
              ret |-> "unit"]

\* State::new_account.  The statements run in source order, so a panic of
\* expect("should exist") leaves the earlier insert in place.
new_account(self, id, public_key) ==
    LET account_info == [public_key |-> public_key, balance |-> 0]
        s1 == [self EXCEPT !.pub_key_to_id = Insert(@, public_key, id)]
        upd == tree_update(s1.account_merkle_tree, id, to_bytes(account_info))
    IN  IF ~upd.ok
        THEN [self |-> s1, ret |-> "panic"]
        ELSE [self |-> [s1 EXCEPT !.account_merkle_tree = upd.tree,
                                  !.id_to_account_info = Insert(@, id, account_info)],
              ret |-> "unit"]

\* Faulty update_balance: the record is changed but the tree is not.
update_balance_stale_tree(self, id, new_amount) ==
    IF id \notin DOMAIN self.id_to_account_info
    THEN [self |-> self, ret |-> "None"]
    ELSE [self |-> [self EXCEPT !.id_to_account_info[id].balance = new_amount], ret |-> "Some"]

\* Faulty update_balance: the tree is written outside the closure, so a miss
\* overwrites the leaf with the encoding of an empty record.
update_balance_writes_on_miss(self, id, new_amount) ==
    IF id \notin DOMAIN self.id_to_account_info
    THEN LET upd == tree_update(self.account_merkle_tree, id, amount_bytes(new_amount))
         IN  [self |-> [self EXCEPT !.account_merkle_tree = upd.tree], ret |-> "None"]
    ELSE LET account_info == [self.id_to_account_info[id] EXCEPT !.balance = new_amount]
             s1 == [self EXCEPT !.id_to_account_info[id] = account_info]
             upd == tree_update(s1.account_merkle_tree, id, to_bytes(account_info))
         IN  IF ~upd.ok
             THEN [self |-> s1, ret |-> "panic"]
             ELSE [self |-> [s1 EXCEPT !.account_merkle_tree = upd.tree], ret |-> "Some"]

\* Faulty update_balance: the new amount is written to every record.
update_balance_all_records(self, id, new_amount) ==
    IF id \notin DOMAIN self.id_to_account_info
    THEN [self |-> self, ret |-> "None"]
    ELSE LET account_info == [self.id_to_account_info[id] EXCEPT !.balance = new_amount]
             s1 == [self EXCEPT !.id_to_account_info =
                       [j \in DOMAIN @ |-> [@[j] EXCEPT !.balance = new_amount]]]
             upd == tree_update(s1.account_merkle_tree, id, to_bytes(account_info))
         IN  IF ~upd.ok
             THEN [self |-> s1, ret |-> "panic"]
             ELSE [self |-> [s1 EXCEPT !.account_merkle_tree = upd.tree], ret |-> "Some"]

\* Faulty update_balance: an account whose balance is set to zero is dropped
\* from the record store.
update_balance_removes_zero(self, id, new_amount) ==
    IF id \notin DOMAIN self.id_to_account_info
    THEN [self |-> self, ret |-> "None"]
    ELSE LET account_info == [self.id_to_account_info[id] EXCEPT !.balance = new_amount]
             s1 == [self EXCEPT !.id_to_account_info =
                       IF new_amount = 0
                       THEN [j \in (DOMAIN @) \ {id} |-> @[j]]
                       ELSE [@ EXCEPT ![id] = account_info]]
             upd == tree_update(s1.account_merkle_tree, id, to_bytes(account_info))
         IN  IF ~upd.ok
             THEN [self |-> s1, ret |-> "panic"]
             ELSE [self |-> [s1 EXCEPT !.account_merkle_tree = upd.tree], ret |-> "Some"]

\* Faulty update_balance: the amount is added to the balance.
update_balance_adds(self, id, new_amount) ==
    IF id \notin DOMAIN self.id_to_account_info
    THEN [self |-> self, ret |-> "None"]
    ELSE LET account_info == [self.id_to_account_info[id] EXCEPT
                                  !.balance = @ + new_amount]
             s1 == [self EXCEPT !.id_to_account_info[id] = account_info]
             upd == tree_update(s1.account_merkle_tree, id, to_bytes(account_info))
         IN  IF ~upd.ok
             THEN [self |-> s1, ret |-> "panic"]
             ELSE [self |-> [s1 EXCEPT !.account_merkle_tree = upd.tree], ret |-> "Some"]

\* State::update_balance.
update_balance(self, id, new_amount) ==
    IF id \notin DOMAIN self.id_to_account_info
    THEN [self |-> self, ret |-> "None"]
    ELSE LET account_info == [self.id_to_account_info[id] EXCEPT !.balance = new_amount]
             s1 == [self EXCEPT !.id_to_account_info[id] = account_info]
             upd == tree_update(s1.account_merkle_tree, id, to_bytes(account_info))
         IN  IF ~upd.ok
             THEN [self |-> s1, ret |-> "panic"]
             ELSE [self |-> [s1 EXCEPT !.account_merkle_tree = upd.tree], ret |-> "Some"]

\* The struct held by the variables.
Self ==
    [account_merkle_tree |-> account_merkle_tree,
     id_to_account_info  |-> id_to_account_info,
     pub_key_to_id       |-> pub_key_to_id]

Store(r) ==
    /\ account_merkle_tree' = r.self.account_merkle_tree
    /\ id_to_account_info' = r.self.id_to_account_info
    /\ pub_key_to_id' = r.self.pub_key_to_id
    /\ ret' = r.ret

\* new_account(id, public_key) is called with a public key that an earlier
\* call passed with another id (pub_key_to_id holds the last id of every key).
KeyReuse(id, public_key) ==
    public_key \in DOMAIN pub_key_to_id /\ pub_key_to_id[public_key] # id

(* ---------------------------- actions ---------------------------------- *)

\* A fresh ledger built with one of the given capacity hints.
InitWith(hints) ==
    /\ num_accounts \in hints
    /\ \E n \in LeafCounts(log2(num_accounts)) :
          /\ account_merkle_tree = new(n).account_merkle_tree
          /\ id_to_account_info = new(n).id_to_account_info
          /\ pub_key_to_id = new(n).pub_key_to_id
    /\ ret = "new"
    /\ key_reused = FALSE

Init == InitWith(Hints)

\* A panic unwinds out of the caller: no further call is made on the State.
NewAccount(id, public_key) ==
    /\ ret # "panic"
    /\ Store(new_account(Self, id, public_key))
    /\ key_reused' = (key_reused \/ KeyReuse(id, public_key))
    /\ UNCHANGED num_accounts

UpdateBalance(id, new_amount) ==
    /\ ret # "panic"
    /\ Store(update_balance(Self, id, new_amount))
    /\ UNCHANGED <<num_accounts, key_reused>>

Next ==
    \/ \E id \in Ids, public_key \in Keys : NewAccount(id, public_key)
    \/ \E id \in Ids, new_amount \in Amounts : UpdateBalance(id, new_amount)

Spec == Init /\ [][Next]_vars

\* new_account restricted to callers that keep ids in range and never reuse
\* an id or a public key.
NewAccountDistinct(id, public_key) ==
    /\ id < NumLeaves(account_merkle_tree)
    /\ id \notin DOMAIN id_to_account_info
    /\ public_key \notin DOMAIN pub_key_to_id
    /\ NewAccount(id, public_key)

NextDistinct ==
    \/ \E id \in Ids, public_key \in Keys : NewAccountDistinct(id, public_key)
    \/ \E id \in Ids, new_amount \in Amounts : UpdateBalance(id, new_amount)

SpecDistinct == Init /\ [][NextDistinct]_vars

\* The concrete scenario: a ledger built with hint 4, on which accounts 0 and
\* 1 are created and update_balance(0, 100), update_balance(2, 50) and
\* update_balance(1, 0) are called, in any order and any number of times.
ScenarioInit == InitWith({ScenarioHint})

ScenarioNext ==
    \/ \E public_key \in Keys : NewAccount(0, public_key)
    \/ \E public_key \in Keys : NewAccount(1, public_key)
    \/ UpdateBalance(0, 100)
    \/ UpdateBalance(2, 50)
    \/ UpdateBalance(1, 0)

SpecScenario == ScenarioInit /\ [][ScenarioNext]_vars

TypeOK ==
    /\ num_accounts \in Hints \cup {ScenarioHint}
    /\ ret \in {"new", "unit", "Some", "None", "panic"}
    /\ DOMAIN id_to_account_info \subseteq Ids
    /\ DOMAIN pub_key_to_id \subseteq Keys
    /\ key_reused \in BOOLEAN

(* ---------------------------- properties ------------------------------- *)

leaf_nodes == account_merkle_tree.leaf_nodes
Assigned == DOMAIN id_to_account_info
Capacity == NumLeaves(account_merkle_tree)
state == <<account_merkle_tree, id_to_account_info, pub_key_to_id>>

\* C1 -- tree/data synchronisation: in every state, every id that is a key
\* of id_to_account_info has a leaf, and that leaf is the encoding of the
\* record stored under the id; the stored root is the root of the leaves.
C1_TreeDataSync ==
    /\ \A id \in Assigned :
          /\ id \in DOMAIN leaf_nodes
          /\ leaf_nodes[id] = to_bytes(id_to_account_info[id])
    /\ account_merkle_tree.root = Root(leaf_nodes)

\* An account whose balance was changed by update_balance exists.
C1_Witness ==
    /\ ret = "Some"
    /\ \E id \in Assigned : id_to_account_info[id].balance = 100

\* Every record's public key is bound to the record's id in pub_key_to_id.
DirectoryConsistent ==
    \A id \in Assigned :
        /\ id_to_account_info[id].public_key \in DOMAIN pub_key_to_id
        /\ pub_key_to_id[id_to_account_info[id].public_key] = id

\* C2 as stated -- directory consistency after every completed operation,
\* for any ids and any public keys.
C2_DirectoryConsistent == (ret # "panic") => DirectoryConsistent

\* C2 amended -- directory consistency holds as long as no public key has
\* been passed to new_account with two different ids.
C2_ConsistentUnlessKeyReused == (~key_reused) => DirectoryConsistent

\* Two accounts exist, one of them re-created under a second key, and no key
\* was reused.
C2_Witness ==
    /\ ~key_reused
    /\ Cardinality(Assigned) >= 2
    /\ Cardinality(DOMAIN pub_key_to_id) >= 2

\* C3 -- no-op on miss: in every reachable state, update_balance on an id
\* without a record returns None and yields the State it was called on: the
\* tree (leaves and root) and both maps are as they were.
C3_NoOpOnMiss ==
    \A id \in Ids \ Assigned, a \in Amounts :
        LET r == update_balance(Self, id, a)
        IN  /\ r.ret = "None"
            /\ r.self.account_merkle_tree.root = account_merkle_tree.root
            /\ r.self.account_merkle_tree.leaf_nodes = leaf_nodes
            /\ r.self.id_to_account_info = id_to_account_info
            /\ r.self.pub_key_to_id = pub_key_to_id

\* A miss was answered on a ledger that holds accounts and has a free slot.
C3_Witness ==
    /\ ret = "None"
    /\ Assigned # {}
    /\ \E id \in DOMAIN leaf_nodes : id \notin Assigned

\* C4 -- frame property: in every reachable state, update_balance on an
\* assigned id changes only leaf id (and the root) and the balance of
\* record id: every other leaf, every other record, the public key of record
\* id, the key set of id_to_account_info and pub_key_to_id stay as they were.
C4_Frame ==
    \A id \in Assigned, a \in Amounts :
        LET r == update_balance(Self, id, a).self
        IN  /\ DOMAIN r.account_merkle_tree.leaf_nodes = DOMAIN leaf_nodes
            /\ \A j \in DOMAIN leaf_nodes :
                  j # id => r.account_merkle_tree.leaf_nodes[j] = leaf_nodes[j]
            /\ DOMAIN r.id_to_account_info = Assigned
            /\ \A j \in Assigned :
                  j # id => r.id_to_account_info[j] = id_to_account_info[j]
            /\ r.id_to_account_info[id].public_key = id_to_account_info[id].public_key
            /\ r.pub_key_to_id = pub_key_to_id

\* A balance was changed on a ledger with at least two accounts.
C4_Witness ==
    /\ ret = "Some"
    /\ Cardinality(Assigned) >= 2
    /\ \E id \in Assigned : id_to_account_info[id].balance = 100

\* C5 as stated -- atomicity: every call of new_account or update_balance,
\* a fatally failing one included, either changes the two maps and the tree
\* together or changes none of them.
C5_Atomic ==
    [][/\ \A id \in Ids, pk \in Keys :
             NewAccount(id, pk)
                 => \/ UNCHANGED state
                    \/ /\ pk \in DOMAIN pub_key_to_id' /\ pub_key_to_id'[pk] = id
                       /\ id \in DOMAIN id_to_account_info'
                       /\ id_to_account_info'[id] = [public_key |-> pk, balance |-> 0]
                       /\ id \in DOMAIN leaf_nodes'
                       /\ leaf_nodes'[id] = to_bytes(id_to_account_info'[id])
       /\ \A id \in Ids, a \in Amounts :
             UpdateBalance(id, a)
                 => \/ UNCHANGED state
                    \/ /\ id \in DOMAIN id_to_account_info'
                       /\ id_to_account_info'[id].balance = a
                       /\ id \in DOMAIN leaf_nodes'
                       /\ leaf_nodes'[id] = to_bytes(id_to_account_info'[id])]_vars

\* The calls of the concrete scenario on a fresh ledger of n leaves.
Scenario(n, K0, K1) ==
    LET c1 == new_account(new(n), 0, K0)
        c2 == new_account(c1.self, 1, K1)
        c3 == update_balance(c2.self, 0, 100)
        c4 == update_balance(c3.self, 2, 50)
        c5 == update_balance(c4.self, 1, 0)
    IN  <<c1, c2, c3, c4, c5>>

ScenarioRoot(n, K0, K1, k) == Scenario(n, K0, K1)[k].self.account_merkle_tree.root
ScenarioRet(n, K0, K1, k) == Scenario(n, K0, K1)[k].ret

\* The part of the scenario up to the miss: R1 # R0, update_balance(0, 100)
\* is found and gives R2 # R1, update_balance(2, 50) is not found and keeps R2,
\* update_balance(1, 0) is found.
ScenarioCommon(n, K0, K1) ==
    /\ ScenarioRet(n, K0, K1, 1) = "unit"
    /\ ScenarioRet(n, K0, K1, 2) = "unit"
    /\ ScenarioRoot(n, K0, K1, 2) # ScenarioRoot(n, K0, K1, 1)
    /\ ScenarioRet(n, K0, K1, 3) = "Some"
    /\ ScenarioRoot(n, K0, K1, 3) # ScenarioRoot(n, K0, K1, 2)
    /\ ScenarioRet(n, K0, K1, 4) = "None"
    /\ ScenarioRoot(n, K0, K1, 4) = ScenarioRoot(n, K0, K1, 3)
    /\ ScenarioRet(n, K0, K1, 5) = "Some"

\* The ledger was built with hint 4 and is in the state the scenario with
\* keys K0, K1 ends in, its last call having returned Some.
ScenarioDone(K0, K1) ==
    /\ num_accounts = ScenarioHint
    /\ K0 # K1
    /\ ret = "Some"
    /\ Self = Scenario(Capacity, K0, K1)[5].self

\* C6 as stated -- the concrete scenario, ending with update_balance(1, 0)
\* giving a root R3 different from R2.
C6_ScenarioAsStated ==
    \A K0 \in Keys, K1 \in Keys :
        ScenarioDone(K0, K1)
            => /\ ScenarioCommon(Capacity, K0, K1)
               /\ ScenarioRoot(Capacity, K0, K1, 5) # ScenarioRoot(Capacity, K0, K1, 4)

\* C6 amended -- the concrete scenario, ending with update_balance(1, 0)
\* found but leaving the root at R2: account 1 was created with balance 0,
\* so its leaf is rewritten with the same bytes.
C6_ScenarioAmended ==
    \A K0 \in Keys, K1 \in Keys :
        ScenarioDone(K0, K1)
            => /\ ScenarioCommon(Capacity, K0, K1)
               /\ ScenarioRoot(Capacity, K0, K1, 5) = ScenarioRoot(Capacity, K0, K1, 4)
               /\ account_merkle_tree.root = ScenarioRoot(Capacity, K0, K1, 5)

\* The scenario has been run to its end.
C6_Witness == \E K0 \in Keys, K1 \in Keys : ScenarioDone(K0, K1)

\* C8 -- blank leaves: every leaf whose id has no record holds the blank
\* leaf of the tree.
C8_BlankUnassigned ==
    \A id \in DOMAIN leaf_nodes : id \notin Assigned => leaf_nodes[id] = BlankLeaf

\* Accounts were created and updated, and a slot is still free.
C8_Witness ==
    /\ \E id \in Assigned : id_to_account_info[id].balance = 100
    /\ \E id \in DOMAIN leaf_nodes : id \notin Assigned
    /\ ret = "Some"

\* C10 -- directory bijection under distinct inputs: when new_account is
\* only called with fresh in-range ids and fresh public keys, the public key
\* of every record is bound to the record's id, and pub_key_to_id has exactly
\* one entry per account.
C10_Bijection ==
    /\ \A id \in Assigned :
          /\ id_to_account_info[id].public_key \in DOMAIN pub_key_to_id
          /\ pub_key_to_id[id_to_account_info[id].public_key] = id
    /\ Cardinality(DOMAIN pub_key_to_id) = Cardinality(Assigned)
    /\ \A pk \in DOMAIN pub_key_to_id : pub_key_to_id[pk] \in Assigned

\* Two accounts with distinct keys exist and a balance was updated.
C10_Witness ==
    /\ Cardinality(Assigned) >= 2
    /\ \E id \in Assigned : id_to_account_info[id].balance = 100

\* C11 as stated -- the reverse directory only holds assigned accounts: every
\* entry (public_key -> id) of pub_key_to_id has id assigned and the record of
\* id holds that public_key, also after repeated creation of an id and after
\* a fatally failed creation.
C11_ReverseEntriesAssigned ==
    \A pk \in DOMAIN pub_key_to_id :
        /\ pub_key_to_id[pk] \in Assigned
        /\ id_to_account_info[pub_key_to_id[pk]].public_key = pk

\* C12 -- one-way slot lifecycle: no step removes an id from
\* id_to_account_info, and a step of update_balance (one that returned Some
\* or None) leaves the set of assigned ids as it was.
C12_OneWayLifecycle ==
    [][/\ Assigned \subseteq DOMAIN id_to_account_info'
       /\ (ret' \in {"Some", "None"}) => (DOMAIN id_to_account_info' = Assigned)]_vars

\* Every slot of a ledger of two leaves is assigned, and the last call was an
\* update_balance that missed.
C12_Witness ==
    /\ Cardinality(Assigned) = 2
    /\ Assigned = DOMAIN leaf_nodes
    /\ ret = "None"

\* C13 -- effect of account creation: in every reachable state, for every id
\* below the capacity (assigned or not) and every public key pk,
\* new_account(id, pk) completes and leaves record id = (pk, balance 0),
\* pub_key_to_id[pk] = id and leaf id = the encoding of (pk, 0); every other
\* record and every other leaf is as before.
C13_CreateEffect ==
    \A id \in Ids, pk \in Keys :
        id < Capacity =>
            LET r == new_account(Self, id, pk)
                t == r.self
            IN  /\ r.ret = "unit"
                /\ DOMAIN t.id_to_account_info = Assigned \cup {id}
                /\ t.id_to_account_info[id] = [public_key |-> pk, balance |-> 0]
                /\ pk \in DOMAIN t.pub_key_to_id
                /\ t.pub_key_to_id[pk] = id
                /\ DOMAIN t.account_merkle_tree.leaf_nodes = DOMAIN leaf_nodes
                /\ t.account_merkle_tree.leaf_nodes[id] = to_bytes([public_key |-> pk, balance |-> 0])
                /\ t.account_merkle_tree.root = Root(t.account_merkle_tree.leaf_nodes)
                /\ \A j \in Assigned : j # id => t.id_to_account_info[j] = id_to_account_info[j]
                /\ \A j \in DOMAIN leaf_nodes :
                      j # id => t.account_merkle_tree.leaf_nodes[j] = leaf_nodes[j]

\* An assigned id was created again under another public key: the reverse
\* entry of its earlier key is still there.
C13_Witness ==
    /\ ret = "unit"
    /\ \E pk \in DOMAIN pub_key_to_id :
          /\ pub_key_to_id[pk] \in Assigned
          /\ id_to_account_info[pub_key_to_id[pk]].public_key # pk

\* A step of update_balance(id, a) that returned Some.
UpdatedTo(id, a) == ret' = "Some" /\ UpdateBalance(id, a)

\* C14 -- effect of a balance update on an existing account: for every
\* assigned id, update_balance(id, a) returns Some, stores balance a under
\* the unchanged public key and writes the encoding of (public key, a) to
\* leaf id.  The balance of a record is the amount of the last successful
\* update_balance on its id since its last creation, or 0: a step gives a
\* record a balance other than the one it had only if it is a successful
\* update_balance(id, a), which gives a to record id, or a new_account,
\* which gives 0.
C14_UpdateEffect ==
    [][/\ \A id \in Assigned, a \in Amounts :
             LET r == update_balance(Self, id, a)
                 info == [public_key |-> id_to_account_info[id].public_key, balance |-> a]
             IN  /\ r.ret = "Some"
                 /\ r.self.id_to_account_info[id] = info
                 /\ r.self.account_merkle_tree.leaf_nodes[id] = to_bytes(info)
       /\ \A id \in DOMAIN id_to_account_info' :
             \/ /\ id \in Assigned
                /\ id_to_account_info'[id].balance = id_to_account_info[id].balance
             \/ /\ ret' = "unit"
                /\ id_to_account_info'[id].balance = 0
             \/ /\ id \in Assigned
                /\ \E a \in Amounts : UpdatedTo(id, a) /\ id_to_account_info'[id].balance = a]_vars

\* A balance of 50 was stored by update_balance.
C14_Witness ==
    /\ ret = "Some"
    /\ \E id \in Assigned : id_to_account_info[id].balance = 50

\* C15 -- ids in use stay in range: every key of id_to_account_info is below
\* the capacity, before and after every step; update_balance never panics
\* (it returns None, or Some for an in-range id); a step that panics is a
\* new_account with an id at or above the capacity, and it stores no record.
C15_IdsInRange ==
    [][/\ Assigned \subseteq DOMAIN leaf_nodes
       /\ DOMAIN id_to_account_info' \subseteq DOMAIN leaf_nodes'
       /\ \A id \in Ids, a \in Amounts :
             LET r == update_balance(Self, id, a)
             IN  /\ r.ret \in {"Some", "None"}
                 /\ r.ret = "Some" => id < Capacity
       /\ (ret' = "panic")
             => /\ id_to_account_info' = id_to_account_info
                /\ \E id \in Ids, pk \in Keys : id >= Capacity /\ NewAccount(id, pk)]_vars

\* A creation failed fatally on a ledger that holds an account.
C15_Witness ==
    /\ ret = "panic"
    /\ Assigned # {}

\* C16 -- idempotence of update_balance: in every reachable state, for every
\* id and amount a, calling update_balance(id, a) on the result of
\* update_balance(id, a) gives the same return value and the same State; and
\* update_balance(id, a) with a the current balance of id gives the State it
\* was called on (maps, leaves and root).
C16_Idempotent ==
    \A id \in Ids, a \in Amounts :
        LET r1 == update_balance(Self, id, a)
            r2 == update_balance(r1.self, id, a)
        IN  /\ r2.ret = r1.ret
            /\ r2.self = r1.self
            /\ (id \in Assigned /\ id_to_account_info[id].balance = a) => r1.self = Self

\* Two accounts hold the same non-zero balance after an update_balance.
C16_Witness ==
    /\ ret = "Some"
    /\ Cardinality(Assigned) = 2
    /\ \A id \in Assigned : id_to_account_info[id].balance = 50

\* C17 -- order independence across distinct accounts: in every reachable
\* state, for distinct in-range ids i and j, distinct public keys Ki and Kj
\* and amounts a and b, the two orders of new_account(i, Ki) and
\* new_account(j, Kj), of update_balance(i, a) and update_balance(j, b), and
\* of new_account(i, Ki) and update_balance(j, b) end in the same State (both
\* maps, the leaves and the root).
C17_Commute ==
    \A i \in Ids, j \in Ids :
        (i # j /\ i < Capacity /\ j < Capacity) =>
            /\ \A Ki \in Keys, Kj \in Keys :
                  Ki # Kj =>
                      new_account(new_account(Self, i, Ki).self, j, Kj).self
                          = new_account(new_account(Self, j, Kj).self, i, Ki).self
            /\ \A a \in Amounts, b \in Amounts :
                  update_balance(update_balance(Self, i, a).self, j, b).self
                      = update_balance(update_balance(Self, j, b).self, i, a).self
            /\ \A Ki \in Keys, b \in Amounts :
                  update_balance(new_account(Self, i, Ki).self, j, b).self
                      = new_account(update_balance(Self, j, b).self, i, Ki).self

\* An account was created after the other account's balance was updated.
C17_Witness ==
    /\ ret = "unit"
    /\ Cardinality(Assigned) = 2
    /\ \E id \in Assigned : id_to_account_info[id].balance = 100

====
